---- MODULE Spec2Model ----
(***************************************************************************)
(* Model of the hook detection-and-verification engine of breath:          *)
(* detect() / add_if_exists() over the LANGUAGES registry, the hook        *)
(* catalog Hook::get_hook(), the verifier verify() with the command runner *)
(* ok(), and the orchestrator run_hooks() / run_hook() (src/src/utils.rs,  *)
(* src/src/hooks.rs).                                                      *)
(*                                                                         *)
(* Elapsed times (Instant::now / elapsed) are measurements of the wall     *)
(* clock and are left out: the "Take" column of the report is not modelled.*)
(***************************************************************************)
EXTENDS Integers, Sequences, FiniteSets, TLC

(***************************************************************************)
(* Bounds                                                                  *)
(***************************************************************************)
\* largest exit code a child process returns in the model (codes 0..MaxExitCode)
MaxExitCode == 1
\* largest number of marker files (exact names) present in a project root of a run
MaxMarkers == 2
\* largest number of directory entries that match the glob *.csproj
MaxCsproj == 2
\* largest number of exact marker files in a root handed to detect() alone
MaxDetectMarkers == 3

(***************************************************************************)
(* hooks.rs: the Language enum and the registry                            *)
(***************************************************************************)
Language ==
    {"Node", "Rust", "Java", "Python", "Go", "Php", "Ruby", "CMake",
     "CSharp", "Kotlin", "Swift", "Dart", "Elixir"}

CS_PROJ == "*.csproj"
MAVEN_POM == "pom.xml"
GRADLE_BUILD == "build.gradle"
RUST_FILE == "Cargo.toml"
GO_FILE == "go.mod"
PHP_FILE == "composer.json"
NODE_FILE == "package.json"
CMAKE_FILE == "CMakeLists.txt"
ELIXIR_FILE == "mix.exs"
RUBY_FILE == "Gemfile"
DART_FILE == "pubspec.yaml"
KOTLIN_FILE == "build.gradle.kts"
SWIFT_FILE == "Package.swift"
PYTHON_FILE == "requirements.txt"

LANGUAGES ==
    << <<"Rust", RUST_FILE>>,
       <<"CSharp", CS_PROJ>>,
       <<"Java", MAVEN_POM>>,
       <<"Go", GO_FILE>>,
       <<"Ruby", RUBY_FILE>>,
       <<"Dart", DART_FILE>>,
       <<"Kotlin", KOTLIN_FILE>>,
       <<"Swift", SWIFT_FILE>>,
       <<"Php", PHP_FILE>>,
       <<"Node", NODE_FILE>>,
       <<"CMake", CMAKE_FILE>>,
       <<"Elixir", ELIXIR_FILE>> >>

(***************************************************************************)
(* hooks.rs: struct Hook and the catalog Hook::get_hook                    *)
(* (description / success / failure are console texts; the model keeps the *)
(* fields that decide paths and commands)                                  *)
(***************************************************************************)
Hook(language, file, command) ==
    [language |-> language, file |-> file, command |-> command]

get_hook(language) ==
    CASE language = "Node" ->
           << Hook("Node", "outdated.log", "npm outdated"),
              Hook("Node", "test.log", "npm run test"),
              Hook("Node", "audit.log", "npm audit") >>
      [] language = "Rust" ->
           << Hook("Rust", "project.log", "cargo verify-project"),
              Hook("Rust", "check.log", "cargo check"),
              Hook("Rust", "audit.log", "cargo audit"),
              Hook("Rust", "fmt.log", "cargo fmt --check"),
              Hook("Rust", "clippy.log",
                   "cargo clippy -- -D clippy::all -W warnings -D clippy::pedantic -D clippy::nursery -A clippy::multiple_crate_versions"),
              Hook("Rust", "test.log", "cargo test --no-fail-fast"),
              Hook("Rust", "doc.log", "cargo doc --no-deps --document-private-items"),
              Hook("Rust", "outdated.log", "cargo outdated") >>
      [] language = "Java" ->
           << Hook("Java", "outdated.log", "mvn versions:display-dependency-updates") >>
      [] language = "Python" ->
           << Hook("Python", "outdated.log", "pip list --outdated"),
              Hook("Python", "audit.log", "pip audit") >>
      [] language = "Go" ->
           << Hook("Go", "test.log", "go test -v"),
              Hook("Go", "outdated.log", "go list -u -m -json all"),
              Hook("Go", "audit.log", "go list -u -m -json all") >>
      [] language = "Php" ->
           << Hook("Php", "reqs.log", "composer check-platform-reqs"),
              Hook("Php", "audit.log", "composer audit"),
              Hook("Php", "outdated.log", "composer outdated"),
              Hook("Php", "test.log", "composer run test") >>
      [] language = "Ruby" ->
           << Hook("Ruby", "outdated.log", "bundle outdated"),
              Hook("Ruby", "audit.log", "bundle audit"),
              Hook("Ruby", "test.log", "bundle exec rspec") >>
      [] language = "CMake" ->
           << Hook("CMake", "cmake.log", "cmake ."),
              Hook("CMake", "make.log", "make"),
              Hook("CMake", "test.log", "make test") >>
      [] language = "CSharp" ->
           << Hook("CSharp", "format.log", "dotnet format --verify-no-changes"),
              Hook("CSharp", "test.log", "dotnet test"),
              Hook("CSharp", "build.log", "dotnet build"),
              Hook("CSharp", "deps.log", "dotnet restore"),
              Hook("CSharp", "audit.log", "dotnet audit") >>
      [] language = "Kotlin" ->
           << Hook("Kotlin", "format.log", "ktlint --reporter=plain"),
              Hook("Kotlin", "test.log", "kotlinc -script test.kts") >>
      [] language = "Swift" ->
           << Hook("Swift", "format.log", "swiftformat --lint ."),
              Hook("Swift", "test.log", "swift test"),
              Hook("Swift", "audit.log", "swift package audit"),
              Hook("Swift", "build.log", "swift build"),
              Hook("Swift", "integration.log", "swift test --parallel") >>
      [] language = "Dart" ->
           << Hook("Dart", "format.log", "dart format --set-exit-if-changed"),
              Hook("Dart", "test.log", "dart test"),
              Hook("Dart", "integration.log", "dart test --integration"),
              Hook("Dart", "audit.log", "dart pub audit"),
              Hook("Dart", "build.log", "dart compile exe bin/main.dart") >>
      [] language = "Elixir" ->
           << Hook("Elixir", "format.log", "mix format --check-formatted"),
              Hook("Elixir", "test.log", "mix test"),
              Hook("Elixir", "integration.log", "mix test --integration"),
              Hook("Elixir", "audit.log", "mix audit"),
              Hook("Elixir", "build.log", "mix compile") >>

(***************************************************************************)
(* The project root as detect() sees it                                    *)
(*   files  : the exact names that exist as regular files in the root      *)
(*   csproj : the entries the glob *.csproj yields, in glob order; an      *)
(*            entry is a regular file, a directory, or a GlobError         *)
(***************************************************************************)
MarkerFiles ==
    {RUST_FILE, MAVEN_POM, GO_FILE, RUBY_FILE, DART_FILE, KOTLIN_FILE,
     SWIFT_FILE, PHP_FILE, NODE_FILE, CMAKE_FILE, ELIXIR_FILE,
     GRADLE_BUILD, PYTHON_FILE}

GlobEntry == {"file", "dir", "err"}

SeqsUpTo(S, n) == UNION {[1..k -> S] : k \in 0..n}

\* utils.rs add_if_exists: the CSharp rule pushes once per matching regular
\* file of the glob; every other rule pushes when the exact path is a file
RECURSIVE PushPerFile(_, _, _)
PushPerFile(entries, language, vec) ==
    IF entries = <<>> THEN vec
    ELSE PushPerFile(Tail(entries), language,
                     IF Head(entries) = "file" THEN Append(vec, language) ELSE vec)

add_if_exists(file, language, vec, dir) ==
    IF language = "CSharp"
    THEN PushPerFile(dir.csproj, language, vec)
    ELSE IF file \in dir.files THEN Append(vec, language) ELSE vec

\* utils.rs add_if_exists: both branches end with Ok(()); an entry of the glob
\* that cannot be read is stepped over by `if let Ok(file)`
\* variant: a glob entry that cannot be read is returned as Err
add_if_exists_is_err_on_glob_error(file, language, dir) ==
    language = "CSharp" /\ \E i \in 1..Len(dir.csproj) : dir.csproj[i] = "err"
add_if_exists_is_err(file, language, dir) == FALSE

\* utils.rs detect: one add_if_exists per registry rule, in registry order
\* (add_if_exists never returns Err, so the early return is never taken)
RECURSIVE detect_from(_, _, _)
detect_from(i, vec, dir) ==
    IF i > Len(LANGUAGES) THEN vec
    ELSE detect_from(i + 1,
                     add_if_exists(LANGUAGES[i][2], LANGUAGES[i][1], vec, dir),
                     dir)

detect(dir) == detect_from(1, <<>>, dir)

(***************************************************************************)
(* State                                                                   *)
(***************************************************************************)
VARIABLES
    root,        \* the project root (marker files present), fixed during a run
    pc,          \* position of the program
    ri,          \* detect: index of the next registry rule
    vec,         \* detect: `all`, the Vec<Language> built so far
    l,           \* run_hooks: `l`, the detected languages
    li,          \* run_hooks: index in l of the language being verified
    lang,        \* run_hook: `lang`, the language being verified ("" before the first)
    hooks,       \* verify: `hooks`
    hi,          \* verify: index in hooks of the current hook
    status,      \* verify: `status`, the Vec<bool>
    all,         \* run_hooks: `all`, the HashMap language -> verify result
    report,      \* the table printed to the console (<<>> while none is printed)
    result,      \* what run_hooks() returned ("none" while it runs)
    dirs,        \* directories that exist under the working directory
    files,       \* log files that exist under the working directory
    children,    \* child processes spawned and not yet waited for
    codes,       \* exit codes of the children of the current verify(), in order
    started,     \* the hooks the current verify() has spawned, in order
    exec,        \* every hook spawned in this run, in order: <<li, hook>>
    verdicts,    \* the booleans returned by the verify() calls, in order
    setupFailed, \* a create_dir_all / File::create of this run returned Err
    noExit,      \* hooks <<li, hi>> whose child was not spawned or gave no exit code
    console,     \* what the current verify() has written to the console, in order
    entry,       \* the entry point of the invocation
    ci,          \* main: index in CHECKS of the next check
    passed,      \* main: outcomes of the checks run so far, in order
    writes,      \* main: the File::create calls of ok(), in order: <<command, path>>
    dialogue,    \* commit: the prompts asked and the commands run, in order
    exitCode,    \* the exit code of the process (<<>> while it runs)
    run,         \* consecutive runs: the number of the current run
    content,     \* consecutive runs: the content of each log file on disk
    emitted,     \* consecutive runs: what each hook wrote to each log in the current run
    snapshot,    \* consecutive runs: `content` as the previous run left it
    repo,        \* zen: which of the directories .git and .hg exist
    option,      \* zen: `option`, the wish selected in the menu
    rounds,      \* zen: number of times the menu was shown
    calls,       \* zen: the calls of call(program, arg), in order, with their result
    zen,         \* zen: how zen() ended ("none" while it runs)
    self,        \* Commit: the fields of the Commit value
    pass,        \* Commit: how many times commit() was called on the value
    qi           \* Commit::commit: index in Questions of the next question

vars ==
    <<root, pc, ri, vec, l, li, lang, hooks, hi, status, all, report, result,
      dirs, files, children, codes, started, exec, verdicts, setupFailed, noExit, console,
      entry, ci, passed, writes, dialogue, exitCode,
      run, content, emitted, snapshot, repo, option, rounds, calls, zen,
      self, pass, qi>>

\* the state that only the specifications of single concerns use
runsVars == <<run, content, emitted, snapshot>>
zenVars == <<repo, option, rounds, calls, zen>>
commitVars == <<self, pass, qi>>
extraVars == <<runsVars, zenVars, commitVars>>

\* the state of main() and of the commit dialogue
mainVars == <<entry, ci, passed, writes, dialogue, exitCode>>

ExitCodes == 0..MaxExitCode

Contains(s, x) == \E i \in 1..Len(s) : s[i] = x

\* all the orders in which a HashMap with key set S can be iterated
Perms(S) ==
    {p \in [1..Cardinality(S) -> S] : \A i, j \in 1..Cardinality(S) : p[i] = p[j] => i = j}

(***************************************************************************)
(* Paths of the state directory (utils.rs verify, lines 232-254)           *)
(***************************************************************************)
StateDir == <<"breathes">>
LanguageDir(hook) == <<"breathes", hook.language>>
StreamDir(hook, stream) == <<"breathes", hook.language, stream>>
LogFile(hook, stream) == <<"breathes", hook.language, stream, hook.file>>

\* the fallible steps of one iteration of the loop of verify(), in the order
\* in which the code takes them
SetupSteps ==
    <<"dir_language", "dir_stdout", "dir_stderr", "file_stderr", "file_stdout", "spawn">>

StepIndex(step) == CHOOSE i \in 1..Len(SetupSteps) : SetupSteps[i] = step

\* number of steps that completed when `failure` is the step that failed
Completed(failure) ==
    IF failure = "none" THEN Len(SetupSteps) ELSE StepIndex(failure) - 1

DirsAfter(d, hook, failure) ==
    d \cup (IF Completed(failure) >= 1 THEN {StateDir, LanguageDir(hook)} ELSE {})
      \cup (IF Completed(failure) >= 2 THEN {StreamDir(hook, "stdout")} ELSE {})
      \cup (IF Completed(failure) >= 3 THEN {StreamDir(hook, "stderr")} ELSE {})

\* variant: only the stdout log is created
FilesAfter_stdout_only(f, hook, failure) ==
    f \cup (IF Completed(failure) >= 5 THEN {LogFile(hook, "stdout")} ELSE {})
FilesAfter(f, hook, failure) ==
    f \cup (IF Completed(failure) >= 4 THEN {LogFile(hook, "stderr")} ELSE {})
      \cup (IF Completed(failure) >= 5 THEN {LogFile(hook, "stdout")} ELSE {})

\* the `?` after create_dir_all and File::create: these errors leave verify()
\* variant: the `?` after the two File::create is missing
is_setup_error_dirs_only(failure) ==
    failure \in {"dir_language", "dir_stdout", "dir_stderr"}
is_setup_error(failure) ==
    failure \in {"dir_language", "dir_stdout", "dir_stderr", "file_stderr", "file_stdout"}

\* run_hook(): Hook::get(lang), the lookup in the catalog
\* variant: the lookup loses the first hook of the list
Hook_get_tail(language) == Tail(get_hook(language))
Hook_get(language) == get_hook(language)

\* ok(): .code().expect("fail to get exit code") panics when the child gave
\* no exit code (exited = FALSE)
\* variant: .code().unwrap_or(..), the missing code is replaced by a code
code_expect_panics_never(exited) == FALSE
code_expect_panics(exited) == ~exited

\* ok(): the console. Spinner::new(.., message) shows hook.description;
\* stop_and_persist shows hook.success or hook.failure. The texts are
\* referred to by hook and field.
Spinner(hook) == <<"spinner", hook, "description">>
Persist(hook, succeeded) ==
    <<"persist", hook, IF succeeded THEN "success" ELSE "failure">>

\* ok(): spawn() is followed by wait(): ok() goes on only when the child
\* has exited
\* variant: the child is spawned and not waited for
wait_child_detached(running, child) == running
wait_child(running, child) == running \ {child}

\* ok(): status.eq(&0)
hook_succeeded(code) == code = 0

\* verify(): the for loop goes on to the next hook whether ok() returned
\* Ok or Err (lines 245-265 only push to status)
\* variant: the loop stops at the first hook that fails (fail-fast)
next_hook_failfast(i, n, succeeded) == IF succeeded THEN i + 1 ELSE n + 1
\* variant: a failed hook is run again
next_hook_retry(i, n, succeeded) == IF succeeded THEN i + 1 ELSE i
\* variant: the loop steps over every second hook
next_hook_skip(i, n, succeeded) == i + 2
next_hook(i, n, succeeded) == i + 1

\* verify(): status.contains(&false).eq(&false)
\* variant: status.contains(&true)
verify_result_any(s) == Contains(s, TRUE)
verify_result(s) == ~Contains(s, FALSE)

\* run_hooks(): if l.is_empty() { return Err(..) }
\* variant: the emptiness check is missing
no_language_never(detected) == FALSE
no_language(detected) == detected = <<>>

\* run_hooks(): the report is built after the loop `for lang in &l`
\* variant: the loop over the languages ends after the first language
languages_done_first(i, detected) == i > 1
languages_done(i, detected) == i > Len(detected)

(***************************************************************************)
(* detect() alone, one registry rule per step                              *)
(***************************************************************************)
DetectRoots ==
    {[files |-> F, csproj |-> c] :
        F \in {G \in SUBSET MarkerFiles : Cardinality(G) <= MaxDetectMarkers},
        c \in SeqsUpTo(GlobEntry, MaxCsproj)}

Idle ==
    /\ ri = 1 /\ vec = <<>> /\ l = <<>> /\ li = 1
    /\ lang = "" /\ hooks = <<>> /\ hi = 1 /\ status = <<>>
    /\ all = <<>> /\ report = <<>> /\ result = "none"
    /\ dirs = {} /\ files = {} /\ children = {}
    /\ codes = <<>> /\ started = <<>> /\ exec = <<>> /\ verdicts = <<>>
    /\ setupFailed = FALSE
    /\ noExit = {} /\ console = <<>>

\* no process of main() is running
MainIdle ==
    /\ ci = 1 /\ passed = <<>> /\ writes = <<>>
    /\ dialogue = <<>> /\ exitCode = <<>>

\* no log file has been written yet
RunsIdle ==
    /\ run = 1 /\ content = <<>> /\ emitted = <<>> /\ snapshot = <<>>

\* the menu of zen() has not been shown
ZenIdle ==
    /\ option = "" /\ rounds = 0 /\ calls = <<>> /\ zen = "none"

NoRepo == [git |-> FALSE, hg |-> FALSE]

\* commit.rs Commit: the fields, in the order in which commit() fills them
CommitFields ==
    <<"t", "summary", "roles", "why", "breaking_changes", "what", "who",
      "benefits", "notes", "resolves">>

\* Commit::new(): Self::default(), every String and Vec empty
Commit_new == [f \in {CommitFields[i] : i \in 1..Len(CommitFields)} |-> <<>>]

CommitIdle ==
    /\ self = Commit_new /\ pass = 1 /\ qi = 1

ExtraIdle ==
    /\ RunsIdle
    /\ ZenIdle /\ repo = NoRepo
    /\ CommitIdle

InitDetect ==
    /\ root \in DetectRoots
    /\ pc = "detect_rule"
    /\ Idle
    /\ entry = "detect" /\ MainIdle /\ ExtraIdle

detect_rule ==
    /\ pc = "detect_rule"
    /\ ri <= Len(LANGUAGES)
    /\ vec' = add_if_exists(LANGUAGES[ri][2], LANGUAGES[ri][1], vec, root)
    /\ ri' = ri + 1
    /\ IF add_if_exists_is_err(LANGUAGES[ri][2], LANGUAGES[ri][1], root)
       THEN l' = vec' /\ pc' = "detected"
       ELSE l' = l /\ pc' = pc
    /\ UNCHANGED mainVars
    /\ UNCHANGED extraVars
    /\ UNCHANGED <<root, li, lang, hooks, hi, status, all, report, result,
                   dirs, files, children, codes, started, exec, verdicts, setupFailed, noExit, console>>

detect_return ==
    /\ pc = "detect_rule"
    /\ ri > Len(LANGUAGES)
    /\ l' = vec
    /\ pc' = "detected"
    /\ UNCHANGED mainVars
    /\ UNCHANGED extraVars
    /\ UNCHANGED <<root, ri, vec, li, lang, hooks, hi, status, all, report, result,
                   dirs, files, children, codes, started, exec, verdicts, setupFailed, noExit, console>>

NextDetect == detect_rule \/ detect_return

SpecDetect == InitDetect /\ [][NextDetect]_vars

(***************************************************************************)
(* run_hooks(): detect, then verify each detected language, then report    *)
(***************************************************************************)
RunRoots ==
    {[files |-> F, csproj |-> c] :
        F \in {G \in SUBSET MarkerFiles : Cardinality(G) <= MaxMarkers},
        c \in SeqsUpTo({"file"}, MaxCsproj)}

Init ==
    /\ root \in RunRoots
    /\ pc = "detect"
    /\ Idle
    /\ entry = "run_hooks" /\ MainIdle /\ ExtraIdle

\* HashMap::insert: a later insert under the same key replaces the value
Insert(map, key, value) ==
    [k \in DOMAIN map \cup {key} |-> IF k = key THEN value ELSE map[k]]

StatusText(succeeded) == IF succeeded THEN "Success" ELSE "Failure"

\* run_hooks lines 359-389: the header, one row per entry of `all` in the
\* order `order` in which the HashMap is iterated, then the "All" row
Table(map, order) ==
    << <<"Language", "Status">> >>
    \o [i \in 1..Len(order) |-> <<order[i], StatusText(map[order[i]])>>]
    \o << <<"All", StatusText(~Contains([i \in 1..Len(order) |-> map[order[i]]], FALSE))>> >>

\* run_hooks lines 393-396
Verdict(map, order) ==
    IF Contains([i \in 1..Len(order) |-> map[order[i]]], FALSE)
    THEN "Err(Some checks failed.)" ELSE "Ok(0)"

\* let l = detect(); if l.is_empty() { return Err(..) }
run_hooks_detect ==
    /\ pc = "detect"
    /\ l' = detect(root)
    /\ IF no_language(l')
       THEN /\ pc' = "done"
            /\ result' = "Err(No language detected)"
       ELSE /\ pc' = "languages"
            /\ result' = result
    /\ UNCHANGED mainVars
    /\ UNCHANGED extraVars
    /\ UNCHANGED <<root, ri, vec, li, lang, hooks, hi, status, all, report,
                   dirs, files, children, codes, started, exec, verdicts, setupFailed, noExit, console>>

\* run_hook(lang, &mut all): Hook::get(lang), then verify(hooks) up to the
\* head of its loop: create_dir_all("breathes")?
run_hook ==
    /\ pc = "languages"
    /\ ~languages_done(li, l)
    /\ lang' = l[li]
    /\ hooks' = Hook_get(lang')
    /\ hi' = 1
    /\ status' = <<>>
    /\ codes' = <<>>
    /\ started' = <<>>
    /\ console' = <<>>
    /\ \E created \in BOOLEAN :
         IF created
         THEN /\ dirs' = dirs \cup {StateDir}
              /\ pc' = "verify_loop"
              /\ UNCHANGED <<result, setupFailed>>
         ELSE /\ dirs' = dirs
              /\ setupFailed' = TRUE
              /\ pc' = "done"
              /\ result' = "Err(Failed to run hook)"
    /\ UNCHANGED mainVars
    /\ UNCHANGED extraVars
    /\ UNCHANGED <<root, ri, vec, l, li, all, report, files, children, exec, verdicts, noExit>>

\* one iteration of `for hook in &hooks` up to the spawn in ok(): the three
\* create_dir_all, the two File::create, then spawn()
verify_hook ==
    /\ pc = "verify_loop"
    /\ hi <= Len(hooks)
    /\ \E failure \in {"none"} \cup {SetupSteps[i] : i \in 1..Len(SetupSteps)} :
         /\ dirs' = DirsAfter(dirs, hooks[hi], failure)
         /\ files' = FilesAfter(files, hooks[hi], failure)
         /\ setupFailed' = (setupFailed \/ failure \in
                {"dir_language", "dir_stdout", "dir_stderr", "file_stderr", "file_stdout"})
         /\ IF is_setup_error(failure)
            THEN /\ pc' = "done"
                 /\ result' = "Err(Failed to run hook)"
                 /\ UNCHANGED <<children, started, exec, noExit, console>>
            ELSE IF failure = "spawn"
            THEN /\ pc' = "done"
                 /\ result' = "panic"
                 /\ noExit' = noExit \cup {<<li, hi>>}
                 /\ console' = Append(console, Spinner(hooks[hi]))
                 /\ UNCHANGED <<children, started, exec>>
            ELSE /\ pc' = "wait"
                 /\ result' = result
                 /\ noExit' = noExit
                 /\ console' = Append(console, Spinner(hooks[hi]))
                 /\ children' = children \cup {<<li, hi>>}
                 /\ started' = Append(started, hooks[hi])
                 /\ exec' = Append(exec, <<li, hooks[hi]>>)
    /\ UNCHANGED mainVars
    /\ UNCHANGED extraVars
    /\ UNCHANGED <<root, ri, vec, l, li, lang, hooks, hi, status, all, report, codes, verdicts>>

\* ok(): wait() returns; code() is None (expect panics) or Some(code), and
\* then verify() pushes to status
ok_wait ==
    /\ pc = "wait"
    /\ children' = wait_child(children, <<li, hi>>)
    /\ \E exited \in BOOLEAN :
         /\ noExit' = (IF exited THEN noExit ELSE noExit \cup {<<li, hi>>})
         /\ IF code_expect_panics(exited)
            THEN /\ pc' = "done"
                 /\ result' = "panic"
                 /\ UNCHANGED <<hi, status, codes, console>>
            ELSE \E code \in ExitCodes :
                 /\ codes' = Append(codes, code)
                 /\ status' = Append(status, hook_succeeded(code))
                 /\ console' = Append(console, Persist(hooks[hi], hook_succeeded(code)))
                 /\ hi' = next_hook(hi, Len(hooks), hook_succeeded(code))
                 /\ pc' = "verify_loop"
                 /\ result' = result
    /\ UNCHANGED mainVars
    /\ UNCHANGED extraVars
    /\ UNCHANGED <<root, ri, vec, l, li, lang, hooks, all, report, dirs, files,
                   started, exec, verdicts, setupFailed>>

\* verify() returns Ok((status.contains(&false).eq(&false), elapsed)) and
\* run_hook() inserts it into `all`
verify_return ==
    /\ pc = "verify_loop"
    /\ hi > Len(hooks)
    /\ all' = Insert(all, lang, verify_result(status))
    /\ verdicts' = Append(verdicts, verify_result(status))
    /\ li' = li + 1
    /\ pc' = "languages"
    /\ UNCHANGED mainVars
    /\ UNCHANGED extraVars
    /\ UNCHANGED <<root, ri, vec, l, lang, hooks, hi, status, report, result, dirs, files,
                   children, codes, started, exec, setupFailed, noExit, console>>

\* run_hooks lines 359-396: build the table from `all`, print it, return
run_hooks_report ==
    /\ pc = "languages"
    /\ languages_done(li, l)
    /\ \E order \in Perms(DOMAIN all) :
         /\ report' = Table(all, order)
         /\ result' = Verdict(all, order)
    /\ pc' = "done"
    /\ UNCHANGED mainVars
    /\ UNCHANGED extraVars
    /\ UNCHANGED <<root, ri, vec, l, li, lang, hooks, hi, status, all, dirs, files,
                   children, codes, started, exec, verdicts, setupFailed, noExit, console>>

Next ==
    \/ run_hooks_detect
    \/ run_hook
    \/ verify_hook
    \/ ok_wait
    \/ verify_return
    \/ run_hooks_report

Spec == Init /\ [][Next]_vars

\* the run under fair scheduling: the program takes its next step whenever it
\* has one, and every child process that was spawned eventually exits
MaxLiveMarkers == 1

LiveRoots ==
    {r \in RunRoots : Cardinality(r.files) <= MaxLiveMarkers}

InitLive ==
    /\ root \in LiveRoots
    /\ pc = "detect"
    /\ Idle
    /\ entry = "run_hooks" /\ MainIdle /\ ExtraIdle

SpecLive ==
    /\ InitLive /\ [][Next]_vars
    /\ WF_vars(run_hooks_detect \/ run_hook \/ verify_hook \/ verify_return \/ run_hooks_report)
    /\ WF_vars(ok_wait)

(***************************************************************************)
(* main(): six checks, fail-fast, then the commit dialogue; and run() of   *)
(* git.rs, which goes to the commit dialogue at once                       *)
(***************************************************************************)
\* main.rs main: the commands handed to ok() and their log file names
CHECKS ==
    << [command |-> "cargo check",               file |-> "check.log"],
       [command |-> "cargo fmt --check",         file |-> "check.log"],
       [command |-> "cargo test --no-fail-fast", file |-> "test.log"],
       [command |-> "cargo clippy",              file |-> "clippy.log"],
       [command |-> "cargo doc --no-deps",       file |-> "doc.log"],
       [command |-> "cargo audit",               file |-> "audit.log"] >>

\* main.rs diff: ok("waiting", sleep 7, .., "waiting.log")
WAITING == [command |-> "sleep 7", file |-> "waiting.log"]

\* ExitCode::SUCCESS, ExitCode::FAILURE, and the exit code of a panic
SUCCESS == 0
FAILURE == 1
PANIC == 101

\* main.rs ok: format!(".breathes/stderr/{file}"), format!(".breathes/stdout/{file}")
MainLogFile(stream, file) == <<".breathes", stream, file>>

\* main.rs ok: what one call can do. The two File::create and status() are
\* followed by expect; status.success() decides between Ok and Err
OkOutcomes ==
    {"stderr_create_failed", "stdout_create_failed", "not_executed", "success", "failure"}

ok_panics(outcome) ==
    outcome \in {"stderr_create_failed", "stdout_create_failed", "not_executed"}

\* main.rs ok: the files created by one call, stderr first
ok_writes(w, check, outcome) ==
    w \o (IF outcome # "stderr_create_failed"
          THEN << <<check.command, MainLogFile("stderr", check.file)>> >> ELSE <<>>)
      \o (IF outcome \notin {"stderr_create_failed", "stdout_create_failed"}
          THEN << <<check.command, MainLogFile("stdout", check.file)>> >> ELSE <<>>)

\* main(): `if ok(..).is_err() { return ExitCode::FAILURE; }` after every check
\* variant: a failed check is reported and the next check runs
check_returns_never(succeeded) == FALSE
check_returns(succeeded) == ~succeeded

\* commit(): both branches end with ExitCode::SUCCESS
\* variant: declining the commit ends with ExitCode::FAILURE
commit_exit_by_answer(committed) == IF committed THEN SUCCESS ELSE FAILURE
commit_exit(committed) == SUCCESS

\* main.rs commit: the choices of Select::new("Commit types", ..)
CommitTypes == {"feat", "fix", "chore", "docs", "refactor", "style", "test"}

\* what the user types at Text::new("Commit scope") and Text::new("Commit summary")
Scopes == {"", "cli"}
Summaries == {"add hooks"}

Ask(question, answer) == <<"ask", question, answer>>
Run(command) == <<"run", command>>

NoRoot == [files |-> {}, csproj |-> <<>>]

hookVars ==
    <<root, ri, vec, l, li, lang, hooks, hi, status, all, report, result,
      dirs, files, children, codes, started, exec, verdicts, setupFailed, noExit, console>>

InitMain ==
    /\ root = NoRoot
    /\ Idle
    /\ MainIdle
    /\ ExtraIdle
    /\ entry \in {"main", "git_run"}
    /\ pc = "start"

Exit(code) ==
    /\ pc' = "exit"
    /\ exitCode' = <<code>>

\* main() up to the first check: the terminal is cleared and the three
\* create_dir_all are followed by expect
main_setup ==
    /\ pc = "start"
    /\ entry = "main"
    /\ \E created \in BOOLEAN :
         IF created
         THEN pc' = "check" /\ exitCode' = exitCode
         ELSE Exit(PANIC)
    /\ UNCHANGED <<entry, ci, passed, writes, dialogue>>
    /\ UNCHANGED hookVars
    /\ UNCHANGED extraVars

\* git.rs run(): commit()
git_run ==
    /\ pc = "start"
    /\ entry = "git_run"
    /\ pc' = "diff"
    /\ UNCHANGED mainVars
    /\ UNCHANGED hookVars
    /\ UNCHANGED extraVars

\* main(): one `if ok(..).is_err() { return ExitCode::FAILURE; }`
main_check ==
    /\ pc = "check"
    /\ ci <= Len(CHECKS)
    /\ \E outcome \in OkOutcomes :
         /\ writes' = ok_writes(writes, CHECKS[ci], outcome)
         /\ IF ok_panics(outcome)
            THEN /\ Exit(PANIC)
                 /\ UNCHANGED <<ci, passed>>
            ELSE /\ passed' = Append(passed, outcome = "success")
                 /\ ci' = ci + 1
                 /\ IF check_returns(outcome = "success")
                    THEN Exit(FAILURE)
                    ELSE pc' = pc /\ exitCode' = exitCode
    /\ UNCHANGED <<entry, dialogue>>
    /\ UNCHANGED hookVars
    /\ UNCHANGED extraVars

\* main(): the last line, commit()
main_commit ==
    /\ pc = "check"
    /\ ci > Len(CHECKS)
    /\ pc' = "diff"
    /\ UNCHANGED mainVars
    /\ UNCHANGED hookVars
    /\ UNCHANGED extraVars

\* diff(): git status, ok(sleep 7).expect(..), git diff -p; run() of git.rs
\* goes through ok() of utils.rs, which creates no file
commit_diff ==
    /\ pc = "diff"
    /\ \E status_ran \in BOOLEAN, outcome \in OkOutcomes, diff_ran \in BOOLEAN :
         /\ dialogue' = dialogue
                \o (IF status_ran THEN <<Run("git status"), Run("sleep 7")>> ELSE <<>>)
                \o (IF status_ran /\ outcome = "success" /\ diff_ran
                    THEN <<Run("git diff -p")>> ELSE <<>>)
         /\ writes' = IF status_ran /\ entry = "main"
                      THEN ok_writes(writes, WAITING, outcome) ELSE writes
         /\ IF status_ran /\ outcome = "success" /\ diff_ran
            THEN pc' = "confirm" /\ exitCode' = exitCode
            ELSE Exit(PANIC)
    /\ UNCHANGED <<entry, ci, passed>>
    /\ UNCHANGED hookVars
    /\ UNCHANGED extraVars

\* Confirm::new("Do you want commit this code ?").prompt().expect("failed")
commit_confirm ==
    /\ pc = "confirm"
    /\ \E answer \in {"yes", "no", "cancel"} :
         /\ dialogue' = Append(dialogue, Ask("Do you want commit this code ?", answer))
         /\ CASE answer = "yes"    -> pc' = "add" /\ exitCode' = exitCode
              [] answer = "no"     -> Exit(commit_exit(FALSE))
              [] answer = "cancel" -> Exit(PANIC)
    /\ UNCHANGED <<entry, ci, passed, writes>>
    /\ UNCHANGED hookVars
    /\ UNCHANGED extraVars

\* git add . , then the questions: type, scope, summary (and the body in
\* git.rs), each prompt followed by expect
commit_add ==
    /\ pc = "add"
    /\ \E ran \in BOOLEAN :
         IF ran
         THEN /\ dialogue' = Append(dialogue, Run("git add ."))
              /\ pc' = "questions" /\ exitCode' = exitCode
         ELSE /\ dialogue' = dialogue
              /\ Exit(PANIC)
    /\ UNCHANGED <<entry, ci, passed, writes>>
    /\ UNCHANGED hookVars
    /\ UNCHANGED extraVars

commit_questions ==
    /\ pc = "questions"
    /\ \E t \in CommitTypes \cup {"cancel"}, s \in Scopes, summary \in Summaries :
         IF t = "cancel"
         THEN /\ dialogue' = Append(dialogue, Ask("Commit types", "cancel"))
              /\ Exit(PANIC)
         ELSE /\ dialogue' = dialogue \o <<Ask("Commit types", t),
                                          Ask("Commit scope", s),
                                          Ask("Commit summary", summary)>>
              /\ pc' = "git_commit" /\ exitCode' = exitCode
    /\ UNCHANGED <<entry, ci, passed, writes>>
    /\ UNCHANGED hookVars
    /\ UNCHANGED extraVars

\* git commit -m comm: status() is followed by expect and its result is
\* dropped; then the terminal is cleared
commit_git_commit ==
    /\ pc = "git_commit"
    /\ \E ran \in BOOLEAN :
         IF ran
         THEN /\ dialogue' = Append(dialogue, Run("git commit"))
              /\ pc' = "push" /\ exitCode' = exitCode
         ELSE /\ dialogue' = dialogue
              /\ Exit(PANIC)
    /\ UNCHANGED <<entry, ci, passed, writes>>
    /\ UNCHANGED hookVars
    /\ UNCHANGED extraVars

\* Confirm::new("Do you want push to remotes?"), git push --all, git push --tags
commit_push ==
    /\ pc = "push"
    /\ \E answer \in {"yes", "no", "cancel"}, ran \in BOOLEAN :
         /\ dialogue' = Append(dialogue, Ask("Do you want push to remotes?", answer))
                \o (IF answer = "yes" /\ ran
                    THEN <<Run("git push --all"), Run("git push --tags")>> ELSE <<>>)
         /\ IF answer = "cancel" \/ (answer = "yes" /\ ~ran)
            THEN Exit(PANIC)
            ELSE Exit(commit_exit(TRUE))
    /\ UNCHANGED <<entry, ci, passed, writes>>
    /\ UNCHANGED hookVars
    /\ UNCHANGED extraVars

NextMain ==
    \/ main_setup
    \/ git_run
    \/ main_check
    \/ main_commit
    \/ commit_diff
    \/ commit_confirm
    \/ commit_add
    \/ commit_questions
    \/ commit_git_commit
    \/ commit_push

SpecMain == InitMain /\ [][NextMain]_vars

(***************************************************************************)
(* Consecutive runs of run_hooks() in the same working directory: what the *)
(* log files hold                                                          *)
(***************************************************************************)
MaxRuns == 2
MaxRunsMarkers == 1
MaxChunks == 1

\* the project roots of the consecutive runs: a Maven project (one hook), a
\* Kotlin project (two hooks), or neither; the root may change between runs
RunsRoots ==
    {r \in RunRoots : /\ r.csproj = <<>>
                      /\ r.files \subseteq {MAVEN_POM, KOTLIN_FILE}
                      /\ Cardinality(r.files) <= MaxRunsMarkers}

\* File::create(path): the file is created if it does not exist and
\* truncated if it does
\* variant: the file is opened for appending
File_create_append(c, path) ==
    [p \in DOMAIN c \cup {path} |-> IF p \in DOMAIN c THEN c[p] ELSE <<>>]
File_create(c, path) ==
    [p \in DOMAIN c \cup {path} |-> IF p = path THEN <<>> ELSE c[p]]

\* the log files one iteration of verify() has created when `failure` is the
\* step that failed: stderr first, then stdout
CreatedLogs(hook, failure) ==
    (IF Completed(failure) >= 4 THEN {LogFile(hook, "stderr")} ELSE {})
    \cup (IF Completed(failure) >= 5 THEN {LogFile(hook, "stdout")} ELSE {})

RECURSIVE CreateAll(_, _)
CreateAll(c, paths) ==
    IF paths = {} THEN c
    ELSE LET p == CHOOSE q \in paths : TRUE
         IN  CreateAll(File_create(c, p), paths \ {p})

\* the child writes to the file it was given as stdout or stderr
Write(c, path, chunk) == [c EXCEPT ![path] = Append(@, chunk)]

InitRuns ==
    /\ root \in RunsRoots
    /\ pc = "runs_detect"
    /\ Idle
    /\ entry = "run_hooks" /\ MainIdle /\ ExtraIdle

runsFrame ==
    <<ri, vec, lang, status, all, report, result, children, codes, started,
      verdicts, setupFailed, noExit, console>>

\* run_hooks(): detect(), and the early return when nothing is detected
runs_detect ==
    /\ pc = "runs_detect"
    /\ l' = detect(root)
    /\ li' = 1
    /\ pc' = IF no_language(l') THEN "runs_done" ELSE "runs_language"
    /\ UNCHANGED <<root, hooks, hi, dirs, files, exec, run, content, emitted, snapshot>>
    /\ UNCHANGED runsFrame
    /\ UNCHANGED <<zenVars, commitVars>>
    /\ UNCHANGED mainVars

\* run_hook(): the catalog lookup and the head of verify(); after the last
\* language run_hooks() reports and returns
runs_language ==
    /\ pc = "runs_language"
    /\ IF languages_done(li, l)
       THEN /\ pc' = "runs_done"
            /\ UNCHANGED <<hooks, hi, dirs>>
       ELSE /\ hooks' = Hook_get(l[li])
            /\ hi' = 1
            /\ \E created \in BOOLEAN :
                 IF created
                 THEN dirs' = dirs \cup {StateDir} /\ pc' = "runs_hook"
                 ELSE dirs' = dirs /\ pc' = "runs_done"
    /\ UNCHANGED <<root, l, li, files, exec, run, content, emitted, snapshot>>
    /\ UNCHANGED runsFrame
    /\ UNCHANGED <<zenVars, commitVars>>
    /\ UNCHANGED mainVars

\* one iteration of the loop of verify() up to the spawn: the directories,
\* File::create of the two logs, spawn()
runs_hook ==
    /\ pc = "runs_hook"
    /\ hi <= Len(hooks)
    /\ \E failure \in {"none"} \cup {SetupSteps[i] : i \in 1..Len(SetupSteps)} :
         /\ dirs' = DirsAfter(dirs, hooks[hi], failure)
         /\ files' = FilesAfter(files, hooks[hi], failure)
         /\ content' = CreateAll(content, CreatedLogs(hooks[hi], failure))
         /\ emitted' = CreateAll(emitted, CreatedLogs(hooks[hi], failure))
         /\ IF failure = "none"
            THEN /\ pc' = "runs_child"
                 /\ exec' = Append(exec, <<li, hooks[hi]>>)
            ELSE /\ pc' = "runs_done"
                 /\ exec' = exec
    /\ UNCHANGED <<root, l, li, hooks, hi, run, snapshot>>
    /\ UNCHANGED runsFrame
    /\ UNCHANGED <<zenVars, commitVars>>
    /\ UNCHANGED mainVars

\* the child process writes a chunk of output to its stdout or its stderr
runs_write ==
    /\ pc = "runs_child"
    /\ \E stream \in {"stdout", "stderr"} :
         LET path == LogFile(hooks[hi], stream)
             chunk == <<run, stream, Len(emitted[path]) + 1>>
         IN  /\ Len(emitted[path]) < MaxChunks
             /\ content' = Write(content, path, chunk)
             /\ emitted' = Write(emitted, path, chunk)
    /\ UNCHANGED <<root, pc, l, li, hooks, hi, dirs, files, exec, run, snapshot>>
    /\ UNCHANGED runsFrame
    /\ UNCHANGED <<zenVars, commitVars>>
    /\ UNCHANGED mainVars

\* the child exits and ok() returns: the next hook, or the next language
runs_exit ==
    /\ pc = "runs_child"
    /\ IF hi + 1 > Len(hooks)
       THEN /\ li' = li + 1
            /\ hi' = hi
            /\ pc' = "runs_language"
       ELSE /\ li' = li
            /\ hi' = hi + 1
            /\ pc' = "runs_hook"
    /\ UNCHANGED <<root, l, hooks, dirs, files, exec, run, content, emitted, snapshot>>
    /\ UNCHANGED runsFrame
    /\ UNCHANGED <<zenVars, commitVars>>
    /\ UNCHANGED mainVars

\* the program is started again in the same working directory: the
\* directories and the log files of the run before are still there
runs_again ==
    /\ pc = "runs_done"
    /\ run < MaxRuns
    /\ run' = run + 1
    /\ root' \in RunsRoots
    /\ snapshot' = content
    /\ emitted' = <<>>
    /\ exec' = <<>>
    /\ l' = <<>> /\ li' = 1 /\ hooks' = <<>> /\ hi' = 1
    /\ pc' = "runs_detect"
    /\ UNCHANGED <<dirs, files, content>>
    /\ UNCHANGED runsFrame
    /\ UNCHANGED <<zenVars, commitVars>>
    /\ UNCHANGED mainVars

NextRuns ==
    \/ runs_detect
    \/ runs_language
    \/ runs_hook
    \/ runs_write
    \/ runs_exit
    \/ runs_again

SpecRuns == InitRuns /\ [][NextRuns]_vars

(***************************************************************************)
(* zen(): the menu loop, and call(program, arg)                            *)
(***************************************************************************)
MaxRounds == 2

\* zen(): the wishes of the menu
ZenOptions ==
    {"add", "patch_send", "log", "clone", "diff", "email", "commit", "list_tags",
     "add_tag", "health", "status", "push", "pull", "edit", "quit"}

\* commit.rs vcs(): "git" when .git is a directory, else "hg" when .hg is
\* one, else "git"
vcs(r) == IF r.git THEN "git" ELSE IF r.hg THEN "hg" ELSE "git"

\* zen(): the wishes that are one call(program, arg) whose result is compared
\* with false: <<program, arg, message of the error zen() returns>>
PassThrough(wish, r) ==
    CASE wish = "add"        -> <<vcs(r), "add .", "Failed to add files to repository">>
      [] wish = "patch_send" -> <<vcs(r), "send-email", "Failed to send email">>
      [] wish = "email"      -> <<"aerc", "", "Failed to run aerc email client">>
      [] wish = "log"        -> <<vcs(r), "log", "Failed to run log command">>
      [] wish = "clone"      -> <<vcs(r), "clone", "Failed to clone repository">>
      [] wish = "edit"       -> <<"broot", ".", "Failed to run broot">>
      [] wish = "list_tags"  -> <<vcs(r), "tag", "Failed to list tags">>
      [] wish = "status"     -> <<vcs(r), "status", "Failed to list status">>
      [] wish = "push"       -> <<vcs(r), "push", "Failed to push">>
      [] wish = "pull"       -> <<vcs(r), "pull", "Failed to pull">>

PassThroughOptions(r) ==
    {"add", "email", "log", "clone", "edit", "list_tags", "status", "push", "pull"}
    \cup (IF r.git THEN {"patch_send"} ELSE {})

\* the wishes that ask with Text::new(..).prompt()? before their call
PromptingOptions == {"patch_send", "clone"}

\* what can become of the child of call(): it cannot be spawned or waited
\* for, it exits successfully, it exits unsuccessfully
CallOutcomes == {"not_spawned", "success", "failure"}

\* call(): spawn().expect(..).wait().expect(..).success(); exit(1) when the
\* child did not succeed, and `true` as the last expression
\* variant: call() returns false when the child did not succeed
call_returns_false(outcome) ==
    CASE outcome = "not_spawned" -> "panic"
      [] outcome = "success"     -> "true"
      [] outcome = "failure"     -> "false"
call(outcome) ==
    CASE outcome = "not_spawned" -> "panic"
      [] outcome = "success"     -> "true"
      [] outcome = "failure"     -> "exit(1)"

Called(program, arg, outcome) ==
    [program |-> program, arg |-> arg, outcome |-> outcome, result |-> call(outcome)]

\* what run_hooks() can return to zen()
RunHooksResults ==
    {"Ok(0)", "Err(No language detected)", "Err(Failed to run hook)",
     "Err(Some checks failed.)"}

Repos == [git : BOOLEAN, hg : BOOLEAN]

InitZen ==
    /\ root = NoRoot
    /\ Idle
    /\ MainIdle
    /\ RunsIdle
    /\ ZenIdle
    /\ CommitIdle
    /\ repo \in Repos
    /\ entry = "zen"
    /\ pc = "zen_menu"

ZenEnds(how) ==
    /\ pc' = "zen_end"
    /\ zen' = how

ZenGoesOn(position) ==
    /\ pc' = position
    /\ zen' = zen

\* Select::new("wishes", options).prompt()?
zen_select ==
    /\ pc = "zen_menu"
    /\ rounds < MaxRounds
    /\ rounds' = rounds + 1
    /\ \E wish \in ZenOptions \cup {"cancel"} :
         IF wish = "cancel"
         THEN option' = option /\ ZenEnds("Err(prompt)")
         ELSE option' = wish /\ pc' = "zen_option" /\ zen' = zen
    /\ UNCHANGED calls
    /\ UNCHANGED <<root, ri, vec, l, li, lang, hooks, hi, status, all, report, result>>
    /\ UNCHANGED <<dirs, files, children, codes, started, exec, verdicts, setupFailed,
                   noExit, console>>
    /\ UNCHANGED <<mainVars, runsVars, commitVars, repo>>

\* `if call(..).eq(&false) { return Err(..) }`, after the questions of the
\* wishes that have some
zen_call ==
    /\ pc = "zen_option"
    /\ option \in PassThroughOptions(repo)
    /\ \E prompted \in BOOLEAN, outcome \in CallOutcomes :
         LET c == PassThrough(option, repo) IN
         IF option \in PromptingOptions /\ ~prompted
         THEN calls' = calls /\ ZenEnds("Err(prompt)")
         ELSE /\ calls' = Append(calls, Called(c[1], c[2], outcome))
              /\ CASE call(outcome) = "true"    -> ZenGoesOn("zen_confirm")
                   [] call(outcome) = "false"   -> ZenEnds(c[3])
                   [] call(outcome) = "exit(1)" -> ZenEnds("exit(1)")
                   [] call(outcome) = "panic"   -> ZenEnds("panic")
    /\ UNCHANGED <<option, rounds>>
    /\ UNCHANGED <<root, ri, vec, l, li, lang, hooks, hi, status, all, report, result>>
    /\ UNCHANGED <<dirs, files, children, codes, started, exec, verdicts, setupFailed,
                   noExit, console>>
    /\ UNCHANGED <<mainVars, runsVars, commitVars, repo>>

\* `if option.eq("add_tag") && Path::new(".git").is_dir()`: the two questions,
\* then `if call(..) { return Err(..) }`
zen_add_tag_git ==
    /\ pc = "zen_option"
    /\ option = "add_tag"
    /\ repo.git
    /\ \E prompted \in BOOLEAN, outcome \in CallOutcomes :
         IF ~prompted
         THEN calls' = calls /\ ZenEnds("Err(prompt)")
         ELSE /\ calls' = Append(calls, Called(vcs(repo), "tag -a", outcome))
              /\ CASE call(outcome) = "true"    -> ZenEnds("Failed to add tag")
                   [] call(outcome) = "false"   -> ZenGoesOn("zen_tag_hg")
                   [] call(outcome) = "exit(1)" -> ZenEnds("exit(1)")
                   [] call(outcome) = "panic"   -> ZenEnds("panic")
    /\ UNCHANGED <<option, rounds>>
    /\ UNCHANGED <<root, ri, vec, l, li, lang, hooks, hi, status, all, report, result>>
    /\ UNCHANGED <<dirs, files, children, codes, started, exec, verdicts, setupFailed,
                   noExit, console>>
    /\ UNCHANGED <<mainVars, runsVars, commitVars, repo>>

\* `if option.eq("add_tag") && Path::new(".hg").is_dir()`: the question, then
\* `if call(..) { return Err(..) }`
zen_add_tag_hg ==
    /\ \/ pc = "zen_tag_hg"
       \/ pc = "zen_option" /\ option = "add_tag" /\ ~repo.git
    /\ repo.hg
    /\ \E prompted \in BOOLEAN, outcome \in CallOutcomes :
         IF ~prompted
         THEN calls' = calls /\ ZenEnds("Err(prompt)")
         ELSE /\ calls' = Append(calls, Called(vcs(repo), "tag", outcome))
              /\ CASE call(outcome) = "true"    -> ZenEnds("Failed to add tag")
                   [] call(outcome) = "false"   -> ZenGoesOn("zen_confirm")
                   [] call(outcome) = "exit(1)" -> ZenEnds("exit(1)")
                   [] call(outcome) = "panic"   -> ZenEnds("panic")
    /\ UNCHANGED <<option, rounds>>
    /\ UNCHANGED <<root, ri, vec, l, li, lang, hooks, hi, status, all, report, result>>
    /\ UNCHANGED <<dirs, files, children, codes, started, exec, verdicts, setupFailed,
                   noExit, console>>
    /\ UNCHANGED <<mainVars, runsVars, commitVars, repo>>

\* the wishes without call(): diff() and run_hooks()? return a Result,
\* "commit" has an empty body, and a wish whose directory test fails does
\* nothing
zen_local ==
    /\ \/ pc = "zen_option" /\ option \in {"diff", "commit", "health"}
       \/ pc = "zen_option" /\ option = "patch_send" /\ ~repo.git
       \/ pc = "zen_option" /\ option = "add_tag" /\ ~repo.git /\ ~repo.hg
       \/ pc = "zen_tag_hg" /\ ~repo.hg
    /\ CASE option = "diff" ->
              \E succeeded \in BOOLEAN :
                  IF succeeded THEN ZenGoesOn("zen_confirm") ELSE ZenEnds("Failed to diff")
         [] option = "health" ->
              \E r \in RunHooksResults :
                  IF r = "Ok(0)" THEN ZenGoesOn("zen_confirm") ELSE ZenEnds(r)
         [] OTHER -> ZenGoesOn("zen_confirm")
    /\ UNCHANGED <<option, rounds, calls>>
    /\ UNCHANGED <<root, ri, vec, l, li, lang, hooks, hi, status, all, report, result>>
    /\ UNCHANGED <<dirs, files, children, codes, started, exec, verdicts, setupFailed,
                   noExit, console>>
    /\ UNCHANGED <<mainVars, runsVars, commitVars, repo>>

\* `if option.eq("quit") { return Ok(0); }`
zen_quit ==
    /\ pc = "zen_option"
    /\ option = "quit"
    /\ ZenEnds("Ok(0)")
    /\ UNCHANGED <<option, rounds, calls>>
    /\ UNCHANGED <<root, ri, vec, l, li, lang, hooks, hi, status, all, report, result>>
    /\ UNCHANGED <<dirs, files, children, codes, started, exec, verdicts, setupFailed,
                   noExit, console>>
    /\ UNCHANGED <<mainVars, runsVars, commitVars, repo>>

\* Confirm::new("Quit").prompt().expect("fail to get"), at the end of the
\* body of the loop
zen_confirm ==
    /\ pc = "zen_confirm"
    /\ \E answer \in {"yes", "no", "cancel"} :
         CASE answer = "yes"    -> ZenEnds("Ok(0)")
           [] answer = "no"     -> ZenGoesOn("zen_menu")
           [] answer = "cancel" -> ZenEnds("panic")
    /\ UNCHANGED <<option, rounds, calls>>
    /\ UNCHANGED <<root, ri, vec, l, li, lang, hooks, hi, status, all, report, result>>
    /\ UNCHANGED <<dirs, files, children, codes, started, exec, verdicts, setupFailed,
                   noExit, console>>
    /\ UNCHANGED <<mainVars, runsVars, commitVars, repo>>

NextZen ==
    \/ zen_select
    \/ zen_call
    \/ zen_add_tag_git
    \/ zen_add_tag_hg
    \/ zen_local
    \/ zen_quit
    \/ zen_confirm

SpecZen == InitZen /\ [][NextZen]_vars

(***************************************************************************)
(* Commit::commit(): the questions of the commit wizard, asked again on    *)
(* the same Commit value                                                   *)
(***************************************************************************)
MaxPasses == 2
MaxResolves == 2

\* Commit::commit: ask_type, ask_summary, ask_roles, ask_why,
\* breaking_changes, ask_what, ask_who, ask_benefits, ask_notes, each of the
\* shape `self.field.clear(); self.field.push_str(prompt()?)`
Questions ==
    <<"t", "summary", "roles", "why", "breaking_changes", "what", "who",
      "benefits", "notes">>

\* what the user answers to a question in the pass `n`
Answer(n, field) == <<n, field>>

clear(value, field) == [value EXCEPT ![field] = <<>>]
push(value, field, answer) == [value EXCEPT ![field] = Append(@, answer)]

InitCommit ==
    /\ root = NoRoot
    /\ Idle
    /\ MainIdle
    /\ RunsIdle
    /\ ZenIdle /\ repo = NoRepo
    /\ CommitIdle
    /\ entry = "commit"
    /\ pc = "wizard_ask"

\* one of the nine ask_* of the shape clear, prompt()?, push_str
wizard_ask ==
    /\ pc = "wizard_ask"
    /\ qi <= Len(Questions)
    /\ \E answered \in BOOLEAN :
         IF answered
         THEN /\ self' = push(clear(self, Questions[qi]), Questions[qi],
                              Answer(pass, Questions[qi]))
              /\ qi' = qi + 1
              /\ pc' = IF qi + 1 > Len(Questions) THEN "wizard_resolves" ELSE pc
         ELSE /\ self' = clear(self, Questions[qi])
              /\ qi' = qi
              /\ pc' = "wizard_err"
    /\ UNCHANGED pass
    /\ UNCHANGED <<root, ri, vec, l, li, lang, hooks, hi, status, all, report, result>>
    /\ UNCHANGED <<dirs, files, children, codes, started, exec, verdicts, setupFailed,
                   noExit, console>>
    /\ UNCHANGED <<mainVars, runsVars, zenVars>>

\* ask_resolves(): self.resolves.push(Text::new("Resolves:").prompt()?), at
\* its head and in the body of its while loop
wizard_resolves ==
    /\ pc = "wizard_resolves"
    /\ \E answered \in BOOLEAN :
         IF answered
         THEN /\ self' = push(self, "resolves", Answer(pass, "resolves"))
              /\ pc' = "wizard_another"
         ELSE /\ self' = self
              /\ pc' = "wizard_err"
    /\ UNCHANGED <<pass, qi>>
    /\ UNCHANGED <<root, ri, vec, l, li, lang, hooks, hi, status, all, report, result>>
    /\ UNCHANGED <<dirs, files, children, codes, started, exec, verdicts, setupFailed,
                   noExit, console>>
    /\ UNCHANGED <<mainVars, runsVars, zenVars>>

\* ask_resolves(): while Confirm::new("Add another resolve?").prompt()?
wizard_another ==
    /\ pc = "wizard_another"
    /\ \E answer \in {"yes", "no", "cancel"} :
         /\ answer = "yes" => Len(self.resolves) < MaxResolves * pass
         /\ pc' = CASE answer = "yes"    -> "wizard_resolves"
                    [] answer = "no"     -> "wizard_resolves_confirm"
                    [] answer = "cancel" -> "wizard_err"
    /\ UNCHANGED <<self, pass, qi>>
    /\ UNCHANGED <<root, ri, vec, l, li, lang, hooks, hi, status, all, report, result>>
    /\ UNCHANGED <<dirs, files, children, codes, started, exec, verdicts, setupFailed,
                   noExit, console>>
    /\ UNCHANGED <<mainVars, runsVars, zenVars>>

\* ask_resolves(): Confirm::new("commit resolves ..").prompt()?; when it is
\* declined, self.resolves.clear(); self.ask_resolves()
wizard_resolves_confirm ==
    /\ pc = "wizard_resolves_confirm"
    /\ \E answer \in {"yes", "no", "cancel"} :
         CASE answer = "yes"    -> self' = self /\ pc' = "wizard_confirm"
           [] answer = "no"     -> self' = clear(self, "resolves") /\ pc' = "wizard_resolves"
           [] answer = "cancel" -> self' = self /\ pc' = "wizard_err"
    /\ UNCHANGED <<pass, qi>>
    /\ UNCHANGED <<root, ri, vec, l, li, lang, hooks, hi, status, all, report, result>>
    /\ UNCHANGED <<dirs, files, children, codes, started, exec, verdicts, setupFailed,
                   noExit, console>>
    /\ UNCHANGED <<mainVars, runsVars, zenVars>>

\* Commit::confirm(): Confirm::new("Confirm commit?").prompt()?
wizard_confirm ==
    /\ pc = "wizard_confirm"
    /\ \E answer \in {"yes", "no", "cancel"} :
         pc' = IF answer = "yes" THEN "wizard_ok" ELSE "wizard_err"
    /\ UNCHANGED <<self, pass, qi>>
    /\ UNCHANGED <<root, ri, vec, l, li, lang, hooks, hi, status, all, report, result>>
    /\ UNCHANGED <<dirs, files, children, codes, started, exec, verdicts, setupFailed,
                   noExit, console>>
    /\ UNCHANGED <<mainVars, runsVars, zenVars>>

\* commit() is called once more on the same Commit value
wizard_again ==
    /\ pc \in {"wizard_ok", "wizard_err"}
    /\ pass < MaxPasses
    /\ pass' = pass + 1
    /\ qi' = 1
    /\ pc' = "wizard_ask"
    /\ UNCHANGED self
    /\ UNCHANGED <<root, ri, vec, l, li, lang, hooks, hi, status, all, report, result>>
    /\ UNCHANGED <<dirs, files, children, codes, started, exec, verdicts, setupFailed,
                   noExit, console>>
    /\ UNCHANGED <<mainVars, runsVars, zenVars>>

NextCommit ==
    \/ wizard_ask
    \/ wizard_resolves
    \/ wizard_another
    \/ wizard_resolves_confirm
    \/ wizard_confirm
    \/ wizard_again

SpecCommit == InitCommit /\ [][NextCommit]_vars

(***************************************************************************)
(* Properties                                                              *)
(***************************************************************************)
Last(s) == s[Len(s)]

\* the most recent verify() call returned Ok(..): its result is the last of verdicts
VerifyReturned ==
    /\ verdicts # <<>>
    /\ \/ pc = "languages"
       \/ pc = "done" /\ report # <<>>

\* verify() was left by an error of the setup or by a panic of ok()
VerifyAborted ==
    pc = "done" /\ result \in {"panic", "Err(Failed to run hook)"}

HasLogs(hook) ==
    LogFile(hook, "stdout") \in files /\ LogFile(hook, "stderr") \in files

\* C1: a hook that exits non-zero never prevents a later hook of the same
\* list from being executed and from getting its stdout/stderr log files:
\* every hook after it has been spawned with both log files, or its turn is
\* still to come, or verify() was left by a setup error or a panic
C1_FailedHookSkipsNoLaterHook ==
    \A i \in 1..Len(codes) :
        codes[i] # 0 =>
            \A j \in (i + 1)..Len(hooks) :
                \/ j <= Len(started) /\ started[j] = hooks[j] /\ HasLogs(hooks[j])
                \/ pc \in {"verify_loop", "wait"} /\ hi <= j
                \/ VerifyAborted /\ hi <= j

C1_LaterHookRanAfterFailure ==
    /\ VerifyReturned
    /\ Len(codes) >= 2
    /\ codes[1] # 0
    /\ Len(started) = Len(hooks)
    /\ HasLogs(hooks[Len(hooks)])

\* C2: when verify() has run its list to completion, the boolean it returns
\* is true iff the child of every hook of the list exited with code 0
C2_VerifyTrueIffAllExitZero ==
    VerifyReturned =>
        /\ Len(codes) = Len(hooks)
        /\ Last(verdicts) = (\A i \in 1..Len(hooks) : codes[i] = 0)

C2_MixedExitCodes ==
    /\ VerifyReturned
    /\ Last(verdicts) = FALSE
    /\ \E i \in 1..Len(codes) : codes[i] = 0
    /\ \E i \in 1..Len(codes) : codes[i] # 0

AllRow == Last(report)[2]

\* C3: run_hooks() returns Ok with the "All" row Success iff every verify()
\* of a detected language succeeded; one failed verification makes the
\* "All" row Failure and the result the aggregate-failure error
C3_AllRowIffEveryVerifySucceeded ==
    (pc = "done" /\ report # <<>>) =>
        LET everyOk == \A i \in 1..Len(verdicts) : verdicts[i] IN
        /\ (result = "Ok(0)" /\ AllRow = "Success") <=> everyOk
        /\ ~everyOk => (AllRow = "Failure" /\ result = "Err(Some checks failed.)")

\* C4: detect() returns each Language at most once
C4_DetectNoDuplicates ==
    pc = "detected" => \A i, j \in 1..Len(l) : l[i] = l[j] => i = j

MarkerPresent(rule, dir) ==
    IF rule[2] = CS_PROJ
    THEN \E i \in 1..Len(dir.csproj) : dir.csproj[i] = "file"
    ELSE rule[2] \in dir.files

RegistryRestricted(dir) ==
    LET present == SelectSeq(LANGUAGES, LAMBDA rule : MarkerPresent(rule, dir))
    IN  [i \in 1..Len(present) |-> present[i][1]]

\* C5: detect() returns the sub-sequence of the registry order LANGUAGES
\* restricted to the languages whose marker is present (only Cargo.toml
\* gives [Rust]; Cargo.toml and package.json give [Rust, Node])
C5_DetectIsRegistrySubsequence ==
    pc = "detected" => l = RegistryRestricted(root)

NoMarker(dir) == \A i \in 1..Len(LANGUAGES) : ~MarkerPresent(LANGUAGES[i], dir)

\* C6: when no marker is present, detect() returns the empty sequence and
\* run_hooks() ends with "No language detected": no hook is executed, no
\* directory or log file is created, no report is rendered
C6_NoLanguageDetected ==
    (pc # "detect" /\ NoMarker(root)) =>
        /\ l = <<>>
        /\ pc = "done"
        /\ result = "Err(No language detected)"
        /\ exec = <<>> /\ children = {}
        /\ dirs = {} /\ files = {}
        /\ report = <<>>

C6_EmptyRootRun ==
    /\ root.files = {} /\ root.csproj = <<>>
    /\ pc = "done"
    /\ result = "Err(No language detected)"

IsPrefix(s, t) ==
    Len(s) <= Len(t) /\ \A i \in 1..Len(s) : s[i] = t[i]

\* C7: within one language the hooks are executed in the order of the
\* catalog: the hooks spawned so far are a prefix of the catalog's list (no
\* reordering, repetition or omission), a hook is spawned only when every
\* hook before it has exited, and a verify() that returns has run them all
C7_HooksInCatalogOrder ==
    lang # "" =>
        /\ hooks = get_hook(lang)
        /\ IsPrefix(started, hooks)
        /\ Len(codes) <= Len(started)
        /\ Len(started) <= Len(codes) + 1
        /\ children # {} => (children = {<<li, hi>>} /\ Len(started) = Len(codes) + 1)
        /\ Len(started) = Len(codes) + 1 => (children # {} \/ result = "panic")
        /\ VerifyReturned => started = hooks

C7_WholeListRan ==
    /\ VerifyReturned
    /\ lang = "Rust"
    /\ Len(started) = 8
    /\ started[8].file = "outdated.log"

\* the hooks of exec that were spawned for the k-th detected language
ExecOf(k) ==
    LET mine == SelectSeq(exec, LAMBDA e : e[1] = k)
    IN  [i \in 1..Len(mine) |-> mine[i][2]]

Phase ==
    CASE pc = "detect" -> 1
      [] pc \in {"languages", "verify_loop", "wait"} -> 2
      [] OTHER -> 3

C8_State ==
    /\ \A k \in 1..Len(exec) :
          /\ exec[k][1] \in 1..Len(l)
          /\ exec[k][2].language = l[exec[k][1]]
          /\ exec[k][1] <= Len(verdicts) + 1
          /\ k < Len(exec) => exec[k][1] <= exec[k + 1][1]
    /\ \A k \in 1..Len(verdicts) : ExecOf(k) = get_hook(l[k])
    /\ \A c \in children : c[1] = Len(verdicts) + 1
    /\ report # <<>> =>
          /\ pc = "done"
          /\ Len(verdicts) = Len(l)
          /\ children = {}

C8_Step ==
    /\ Phase' >= Phase
    /\ pc # "detect" => l' = l
    /\ report # <<>> => report' = report

\* C8: the detected languages are verified one after the other in detection
\* order (every hook of language k has finished before a hook of language
\* k+1 starts), the report with its "All" row is produced only when every
\* detected language has finished, and the run passes through detecting,
\* verifying and reporting once each, in that order
C8_LanguagesInDetectionOrder == []C8_State /\ [][C8_Step]_vars

C8_TwoLanguagesReported ==
    /\ report # <<>>
    /\ Len(l) >= 2
    /\ l[1] # l[2]
    /\ Len(exec) = Len(get_hook(l[1])) + Len(get_hook(l[2]))

\* the language rows of the report: all rows but the header and the last
LanguageRows ==
    [i \in 1..(Len(report) - 2) |-> report[i + 1][1]]

\* C9: the report lists one row per detected language in detection order,
\* followed by the single trailing "All" row
C9_RowsInDetectionOrder ==
    report # <<>> =>
        /\ LanguageRows = l
        /\ Last(report)[1] = "All"

FailureRow(x) ==
    \E i \in 2..(Len(report) - 1) : report[i] = <<x, "Failure">>

\* a verify() that returned false does not stop the run: a run that ends
\* without setup error or panic has verified every detected language
RunGoesOnAfterFailedLanguage ==
    \A k \in 1..Len(verdicts) :
        (~verdicts[k] /\ pc = "done" /\ ~VerifyAborted) =>
            /\ Len(verdicts) = Len(l)
            /\ \A j \in (k + 1)..Len(l) : ExecOf(j) = get_hook(l[j])

\* C11: a language whose verification fails does not stop the run (every
\* language detected after it is verified with all of its hooks), and the
\* failure shows up as that language's Failure row and in the aggregate
\* verdict
C11_FailedLanguageIsReportedAndRunGoesOn ==
    /\ RunGoesOnAfterFailedLanguage
    /\ \A k \in 1..Len(verdicts) :
          (~verdicts[k] /\ report # <<>>) =>
              /\ FailureRow(l[k])
              /\ AllRow = "Failure"
              /\ result = "Err(Some checks failed.)"

\* C12 as claimed: a hook whose child cannot be spawned or ends without an
\* exit code is an ordinary failed hook, the run is not aborted
C12_NoExitCodeIsOrdinaryFailure ==
    noExit # {} => ~(pc = "done" /\ result = "panic")

\* C12 as amended: a non-zero exit code (the shell reporting a missing
\* binary included) is recorded as a failed hook, but a child that cannot be
\* spawned or that ends without an exit code makes ok() panic: the run ends
\* there, no later hook or language is executed and no report is rendered
C12_NoExitCodePanics ==
    /\ [](\A i \in 1..Len(codes) : status[i] = (codes[i] = 0))
    /\ [](noExit # {} =>
            /\ pc = "done"
            /\ result = "panic"
            /\ children = {}
            /\ report = <<>>)
    /\ [][noExit # {} => (exec' = exec /\ verdicts' = verdicts)]_vars

C12_ChildWithoutExitCode ==
    /\ <<li, hi>> \in noExit
    /\ Len(started) = hi
    /\ hi >= 2
    /\ codes[1] # 0
    /\ result = "panic"

\* the console shows the content of a log file
Dump(hook, stream) == <<"print", LogFile(hook, stream)>>

\* C14: whenever a hook fails, the indicator resolves to the hook's failure
\* message and is followed on the console by the captured stdout and the
\* captured stderr of that hook, before the next hook starts
C14_FailureDumpsLogs ==
    \A i \in 1..Len(codes) :
        codes[i] # 0 =>
            \E k \in 1..Len(console) :
                /\ console[k] = <<"persist", hooks[i], "failure">>
                /\ k + 2 <= Len(console)
                /\ console[k + 1] = Dump(hooks[i], "stdout")
                /\ console[k + 2] = Dump(hooks[i], "stderr")

\* C18: the catalog has a non-empty list of hooks for every Language, all of
\* that language, so every verify() runs at least one hook and no verdict
\* is a vacuous success
C18_CatalogExhaustive ==
    /\ \A x \in Language :
          /\ get_hook(x) # <<>>
          /\ \A i \in 1..Len(get_hook(x)) : get_hook(x)[i].language = x
    /\ lang # "" => (lang \in Language /\ hooks # <<>>)
    /\ VerifyReturned => Len(codes) >= 1

C18_SingleHookLanguageVerified ==
    /\ VerifyReturned
    /\ lang = "Java"
    /\ Len(hooks) = 1
    /\ Len(codes) = 1
    /\ Last(verdicts) = TRUE

\* what a value returned by run_hooks() carries besides its message: the
\* Err values are io::Error::other(message), the Ok value is the integer 0
Carried(value) == <<>>

\* C19: when the aggregate verdict is a failure, the error returned by
\* run_hooks() carries the full report (the rows and the "All" row)
C19_ErrorCarriesReport ==
    result = "Err(Some checks failed.)" => Carried(result) = report

LogsOf(language, stream) ==
    {f \in files : f[2] = language /\ f[3] = stream}

\* C20: after verify() has run a list of n hooks, exactly n stdout and n
\* stderr log files exist for the language, one pair per hook, whatever the
\* exit codes; three hooks that all exit 0 give success and three pairs
C20_OneLogPairPerHook ==
    VerifyReturned =>
        /\ \A stream \in {"stdout", "stderr"} :
              /\ LogsOf(lang, stream) = {LogFile(hooks[i], stream) : i \in 1..Len(hooks)}
              /\ Cardinality(LogsOf(lang, stream)) = Len(hooks)
        /\ (Len(hooks) = 3 /\ \A i \in 1..3 : codes[i] = 0) =>
              (Last(verdicts) = TRUE /\ Cardinality(LogsOf(lang, "stdout")) = 3)

C20_ThreeHooksAllZero ==
    /\ VerifyReturned
    /\ Len(hooks) = 3
    /\ \A i \in 1..3 : codes[i] = 0
    /\ Last(verdicts) = TRUE
    /\ Cardinality(LogsOf(lang, "stdout")) = 3
    /\ Cardinality(LogsOf(lang, "stderr")) = 3


\* the languages a marker stands for (build.gradle is the Gradle build file
\* of a Java or Kotlin project)
MarkerLanguages(marker) ==
    CASE marker = RUST_FILE    -> {"Rust"}
      [] marker = NODE_FILE    -> {"Node"}
      [] marker = GO_FILE      -> {"Go"}
      [] marker = PHP_FILE     -> {"Php"}
      [] marker = CS_PROJ      -> {"CSharp"}
      [] marker = MAVEN_POM    -> {"Java"}
      [] marker = GRADLE_BUILD -> {"Java", "Kotlin"}
      [] marker = KOTLIN_FILE  -> {"Kotlin"}
      [] marker = RUBY_FILE    -> {"Ruby"}
      [] marker = DART_FILE    -> {"Dart"}
      [] marker = SWIFT_FILE   -> {"Swift"}
      [] marker = ELIXIR_FILE  -> {"Elixir"}
      [] marker = PYTHON_FILE  -> {"Python"}
      [] marker = CMAKE_FILE   -> {"CMake"}

OnlyMarker(dir, marker) ==
    IF marker = CS_PROJ
    THEN dir.files = {} /\ dir.csproj = <<"file">>
    ELSE dir.files = {marker} /\ dir.csproj = <<>>

\* C17: for each marker file of the list (Cargo.toml, package.json, go.mod,
\* composer.json, *.csproj, pom.xml, build.gradle, build.gradle.kts, Gemfile,
\* pubspec.yaml, Package.swift, mix.exs, requirements.txt, CMakeLists.txt), a
\* project root that contains only that marker yields a non-empty detection
\* result that names the corresponding language
C17_EveryMarkerIsConsulted ==
    \A marker \in MarkerFiles \cup {CS_PROJ} :
        (pc = "detected" /\ OnlyMarker(root, marker)) =>
            /\ l # <<>>
            /\ \A i \in 1..Len(l) : l[i] \in MarkerLanguages(marker)



\* C13: in any run no two distinct hooks write to the same log file path, so
\* the logs of one hook are never overwritten by another hook of the same run
C13_NoTwoHooksShareALogFile ==
    \A i, j \in 1..Len(writes) :
        writes[i][2] = writes[j][2] => writes[i][1] = writes[j][1]

AllChecksPassed ==
    /\ Len(passed) = Len(CHECKS)
    /\ \A i \in 1..Len(passed) : passed[i]

SomeCheckFailed == \E i \in 1..Len(passed) : ~passed[i]

CommitAskedOrIssued ==
    \E i \in 1..Len(dialogue) :
        dialogue[i][1] = "ask" \/ dialogue[i] = Run("git commit")

\* C15: a commit question is asked, or a VCS commit issued, only after the
\* health checks have been run and have succeeded in the same invocation
C15_CommitOnlyAfterSuccessfulChecks ==
    CommitAskedOrIssued => AllChecksPassed

\* C16 (as stated): the exit code of the process is 0 when all checks
\* succeeded and non-zero when at least one check failed, for every
\* combination of check outcomes and every course of the commit dialogue
C16_ExitCodeReflectsChecksOnly ==
    (entry = "main" /\ pc = "exit") =>
        (exitCode = <<SUCCESS>> <=> AllChecksPassed)

\* the commit dialogue came to one of its two ends: the commit was declined,
\* or the push question was answered and the pushes, if asked for, were run
DialogueCompleted ==
    /\ dialogue # <<>>
    /\ Last(dialogue) \in
         {Ask("Do you want commit this code ?", "no"),
          Ask("Do you want push to remotes?", "no"),
          Run("git push --tags")}

\* C16 (amended): a failed check makes the exit code FAILURE; when all checks
\* succeeded the exit code is 0 whatever the user answers, provided the
\* dialogue comes to its end; when a prompt is cancelled or a command of the
\* dialogue cannot be run the process panics and the exit code is not 0
C16_ExitCodeZeroIffChecksPassedAndDialogueCompleted ==
    (entry = "main" /\ pc = "exit") =>
        /\ SomeCheckFailed => exitCode = <<FAILURE>>
        /\ exitCode = <<SUCCESS>> <=> (AllChecksPassed /\ DialogueCompleted)
        /\ (AllChecksPassed /\ ~DialogueCompleted) => exitCode = <<PANIC>>

C16_DeclinedCommitExitsZero ==
    /\ entry = "main" /\ pc = "exit"
    /\ AllChecksPassed
    /\ Contains(dialogue, Ask("Do you want commit this code ?", "no"))
    /\ exitCode = <<SUCCESS>>



\* the stage of a hook in the sequencing validity, build, test, lint,
\* dependency-audit, read from the log file name the catalog gives it
\* (0: the hook belongs to none of the five stages)
HookStage(hook) ==
    CASE hook.file = "project.log" -> 1
      [] hook.file = "build.log"   -> 2
      [] hook.file = "test.log"    -> 3
      [] hook.file = "clippy.log"  -> 4
      [] hook.file = "audit.log"   -> 5
      [] OTHER -> 0

\* C21: in every language's hook list, wherever both hooks exist, the
\* project-validity check precedes the build hook, the build hook the test
\* hook, the test hook the lint hook and the lint hook the dependency-audit
\* hook (stated of the list `hooks` that verify() is given)
C21_IntendedSequencing ==
    \A i, j \in 1..Len(hooks) :
        (/\ HookStage(hooks[i]) # 0
         /\ HookStage(hooks[j]) # 0
         /\ HookStage(hooks[i]) < HookStage(hooks[j])) => i < j


\* the hooks whose child process holds the log file `path` open for writing:
\* the two files handed to the child as its stdout and stderr stay open until
\* the child exits
Writers(path) ==
    {c \in children :
        \E stream \in {"stdout", "stderr"} :
            LogFile(Hook_get(l[c[1]])[c[2]], stream) = path}

C22_State ==
    /\ Cardinality(children) <= 1
    /\ \A path \in files : Cardinality(Writers(path)) <= 1

\* a child process is started only in a state where no child is running
C22_Step ==
    (children' \ children # {}) => children = {}

\* C22: at any moment of a run at most one hook child process is running and
\* no log file is open for writing by more than one hook; a hook's process is
\* started only after the process of the previously started hook has exited
C22_OneChildAtATime == [](C22_State) /\ [][C22_Step]_vars

C22_SecondHookRunning ==
    /\ Cardinality(children) = 1
    /\ Len(codes) >= 1
    /\ Len(started) = Len(codes) + 1


\* no hook of a language pass is executed twice
NoRetry ==
    \A i, j \in 1..Len(exec) : exec[i] = exec[j] => i = j

\* while ok() waits for a child the only step of the run is the exit of that
\* child: there is no timeout and no cancellation
BlockedUntilExit ==
    pc = "wait" => (<<li, hi>> \in children /\ <<li, hi>> \notin children')

\* C23: if every spawned hook process eventually exits, run_hooks() eventually
\* reaches its terminal state, having executed each hook once with no retry;
\* a run that waits for a hook process advances only when that process exits
C23_TerminatesUnlessAHookHangs ==
    /\ <>(pc = "done")
    /\ [](NoRetry)
    /\ [][BlockedUntilExit]_vars

C23_ReportAfterThreeHooks ==
    /\ pc = "done"
    /\ report # <<>>
    /\ Len(exec) >= 3


\* the hooks whose process was started in the current run
RanNow == {exec[i][2] : i \in 1..Len(exec)}

AllHooks == UNION {{Hook_get(x)[i] : i \in 1..Len(Hook_get(x))} : x \in Language}

Unchanged(path) ==
    IF path \in DOMAIN snapshot
    THEN path \in DOMAIN content /\ content[path] = snapshot[path]
    ELSE path \notin DOMAIN content

\* C24 (as stated): after two consecutive runs the content of the stdout and
\* stderr log of a hook that ran in the second run is exactly the output of
\* that hook in the second run, and the log files of the hooks that did not
\* run in the second run are left unchanged
C24_LogsOverwrittenPerRun ==
    (pc = "runs_done" /\ run >= 2) =>
        \A hook \in AllHooks : \A stream \in {"stdout", "stderr"} :
            LET path == LogFile(hook, stream) IN
            IF hook \in RanNow
            THEN path \in DOMAIN content /\ content[path] = emitted[path]
            ELSE Unchanged(path)

\* C24 (amended): after two consecutive runs every log file that the second
\* run created holds exactly what its hook wrote in the second run (nothing
\* when the hook was not started after all), every hook started in the second
\* run has both its logs among them, and every other log file is unchanged
C24_LogsTruncatedWhenCreated ==
    (pc = "runs_done" /\ run >= 2) =>
        /\ \A path \in DOMAIN emitted :
               path \in DOMAIN content /\ content[path] = emitted[path]
        /\ \A hook \in RanNow : \A stream \in {"stdout", "stderr"} :
               LogFile(hook, stream) \in DOMAIN emitted
        /\ \A path \in (DOMAIN content \cup DOMAIN snapshot) \ DOMAIN emitted :
               Unchanged(path)

C24_SecondRunOverwroteAndKept ==
    /\ pc = "runs_done" /\ run = 2
    /\ \E p \in DOMAIN emitted :
           p \in DOMAIN snapshot /\ snapshot[p] # <<>> /\ content[p] # snapshot[p]
    /\ \E p \in DOMAIN snapshot \ DOMAIN emitted : snapshot[p] # <<>>


\* C25: a glob entry that cannot be read never aborts detection: the entry is
\* skipped and every later rule of the registry is still evaluated, so
\* detect() returns only after the whole registry was scanned and its result
\* names every language whose marker is present
C25_State ==
    pc = "detected" =>
        /\ ri = Len(LANGUAGES) + 1
        /\ \A i \in 1..Len(LANGUAGES) :
               MarkerPresent(LANGUAGES[i], root) => Contains(l, LANGUAGES[i][1])

C25_Step ==
    /\ ri' # ri => (ri <= Len(LANGUAGES) /\ ri' = ri + 1)
    /\ (pc = "detect_rule" /\ pc' = "detected") => ri > Len(LANGUAGES)

C25_DetectScansWholeRegistry == [](C25_State) /\ [][C25_Step]_vars

C25_LaterRuleAfterGlobError ==
    /\ pc = "detected"
    /\ \E i \in 1..Len(root.csproj) : root.csproj[i] = "err"
    /\ ELIXIR_FILE \in root.files
    /\ Contains(l, "Elixir")


CheckIndex(command) ==
    IF \E i \in 1..Len(CHECKS) : CHECKS[i].command = command
    THEN CHOOSE i \in 1..Len(CHECKS) : CHECKS[i].command = command
    ELSE Len(CHECKS) + 1

\* C26: in main() the six checks run in the order cargo check, cargo fmt
\* --check, cargo test, cargo clippy, cargo doc, cargo audit; the first check
\* that fails ends the process with the failure exit code, no later check is
\* executed and the commit dialogue is never entered
C26_State ==
    entry = "main" =>
        /\ \A i, j \in 1..Len(writes) :
               i <= j => CheckIndex(writes[i][1]) <= CheckIndex(writes[j][1])
        /\ \A i \in 1..Len(writes) :
               CheckIndex(writes[i][1]) <= Len(passed) + 1
        /\ SomeCheckFailed =>
               /\ pc = "exit"
               /\ exitCode = <<FAILURE>>
               /\ \A i \in 1..(Len(passed) - 1) : passed[i]
               /\ dialogue = <<>>

C26_Step ==
    passed' # passed =>
        /\ Len(passed') = Len(passed) + 1
        /\ ~SomeCheckFailed
        /\ writes'[Len(writes')][1] = CHECKS[Len(passed')].command

C26_FailFastPipeline == [](C26_State) /\ [][C26_Step]_vars

C26_ThirdCheckFailed ==
    /\ entry = "main" /\ pc = "exit"
    /\ passed = <<TRUE, TRUE, FALSE>>
    /\ exitCode = <<FAILURE>>


\* C27: within one run_hooks() invocation each detected language's hook list
\* is executed exactly once, and the status a language has in the report and
\* in the aggregate verdict is the result of every execution of its hooks:
\* no verification result is overwritten or lost before the verdict
C27_NoResultOverwritten ==
    (pc = "done" /\ report # <<>>) =>
        /\ \A x \in DOMAIN all :
               Cardinality({i \in 1..Len(verdicts) : l[i] = x}) = 1
        /\ \A i \in 1..Len(verdicts) : all[l[i]] = verdicts[i]


\* C28: in zen(), choosing add_tag and having the tag command succeed does
\* not end the loop with an error: zen() returns Err("Failed to add tag") only
\* when the tag command failed
C28_AddTagErrorOnlyWhenTagFailed ==
    zen = "Failed to add tag" =>
        \E i \in 1..Len(calls) : i = Len(calls) /\ calls[i].outcome # "success"

PassThroughErrors ==
    {PassThrough(wish, repo)[3] : wish \in PassThroughOptions(repo)}

\* C29 (as stated): call() never returns false: it returns true when the
\* command exits successfully and otherwise ends the whole process with exit
\* code 1, so after a failing pass-through command zen() neither returns its
\* own error nor comes back to the menu
C29_CallTrueOrExitOne ==
    /\ \A i \in 1..Len(calls) :
         /\ calls[i].result \in {"true", "exit(1)"}
         /\ calls[i].outcome # "success" =>
                (i = Len(calls) /\ pc = "zen_end" /\ zen = "exit(1)")
    /\ zen \notin PassThroughErrors

\* C29 (amended): call() never returns false: it returns true when the command
\* exits successfully, ends the process with exit code 1 when the command
\* exits unsuccessfully, and panics when the command cannot be spawned or
\* waited for; in both cases zen() neither returns its own error nor comes
\* back to the menu
C29_CallNeverReturnsFalse ==
    /\ \A i \in 1..Len(calls) :
         /\ calls[i].result # "false"
         /\ calls[i].result = "true" <=> calls[i].outcome = "success"
         /\ calls[i].outcome = "failure" =>
                (i = Len(calls) /\ pc = "zen_end" /\ zen = "exit(1)")
         /\ calls[i].outcome = "not_spawned" =>
                (i = Len(calls) /\ pc = "zen_end" /\ zen = "panic")
    /\ zen \notin PassThroughErrors

C29_PushFailedProcessExited ==
    /\ zen = "exit(1)"
    /\ option = "push"
    /\ \E i \in 1..Len(calls) :
           i = Len(calls) /\ calls[i].arg = "push" /\ calls[i].outcome = "failure"


\* C30: every question step of the commit wizard resets the field it fills
\* before it stores the new answer, so that after Commit::commit() has run a
\* second time on the same Commit value no answer of the first pass is left
\* in any field (type, summary, roles, why, breaking changes, what, who,
\* benefits, notes, resolves)
C30_NoAnswerOfAnEarlierPass ==
    (pc = "wizard_ok" /\ pass >= 2) =>
        \A i \in 1..Len(CommitFields) :
            \A k \in 1..Len(self[CommitFields[i]]) :
                self[CommitFields[i]][k][1] = pass

====
